---- MODULE Spec2Model ----
(***************************************************************************)
(* Model of the rust-workshop identity subsystem: the User aggregate       *)
(* (validation, Argon2 hashing, verification), the in-memory and the       *)
(* relational DataAccess backends and the axum request handlers.           *)
(*                                                                         *)
(* Strings are sequences of characters; a character is a one-symbol TLA+   *)
(* string ("A", "@"), and a non-ASCII character is named by its code point *)
(* ("U+00E9" is e-acute, two bytes in UTF-8).                              *)
(***************************************************************************)
EXTENDS Naturals, Sequences, FiniteSets

VARIABLES
    backend,   \* which build runs: "aggregate" (unit tests of User), "in_memory", "postgres"
    call,      \* aggregate: the arguments (email_address, name, password) of User::new
    made,      \* aggregate: Option<Result<User, ApplicationError>> returned by User::new
    checked,   \* aggregate: Option<(candidate, Result<(), ApplicationError>)> of verify_password
    users,     \* InMemoryDataAccess.users: the Vec<User> inside the Mutex
    lock,      \* the Mutex: its holder, <<>> when free
    rows,      \* the relational `users` table: rows in insertion order
    unique_key,\* whether the table's email_address column carries a uniqueness constraint
    req,       \* per request task: position, payload, locals and response
    started,   \* number of requests accepted so far
    created    \* history: the registrations answered 201, in order

vars == <<backend, call, made, checked, users, lock, rows, unique_key, req, started, created>>

(***************************************************************************)
(* Bounds of the model                                                     *)
(***************************************************************************)
MaxTail == 4
NProc == 2
MaxReqs == 3
\* requests the in-memory build serves in one run
MaxMemReqs == 2
\* requests one client sends to the in-memory build, one after the other
MaxSerialReqs == 3
\* users a caller stores before and between its lookups
MaxStored == 2

(***************************************************************************)
(* Option and Result                                                       *)
(***************************************************************************)
None == <<>>
Some(x) == <<x>>
IsSome(o) == o # <<>>
Unwrap(o) == o[1]

Ok(v) == [ok |-> TRUE, val |-> v]
Err(e) == [ok |-> FALSE, err |-> e]
Unit == "()"

(***************************************************************************)
(* ApplicationError                                                        *)
(***************************************************************************)
UserAlreadyExists == [kind |-> "UserAlreadyExists", detail |-> ""]
UserDoesNotExist == [kind |-> "UserDoesNotExist", detail |-> ""]
IncorrectPassword == [kind |-> "IncorrectPassword", detail |-> ""]
DatabaseError(d) == [kind |-> "DatabaseError", detail |-> d]
ApplicationError(d) == [kind |-> "ApplicationError", detail |-> d]

(***************************************************************************)
(* Characters                                                              *)
(***************************************************************************)
AsciiUpper == {"A","B","C","D","E","F","G","H","I","J","K","L","M",
               "N","O","P","Q","R","S","T","U","V","W","X","Y","Z"}
AsciiLower == {"a","b","c","d","e","f","g","h","i","j","k","l","m",
               "n","o","p","q","r","s","t","u","v","w","x","y","z"}
AsciiDigit == {"0","1","2","3","4","5","6","7","8","9"}
\* U+00C9 LATIN CAPITAL LETTER E WITH ACUTE, U+00E9 LATIN SMALL LETTER E WITH ACUTE
TwoByteUpper == {"U+00C9"}
TwoByteLower == {"U+00E9"}

\* char::is_uppercase / char::is_lowercase follow the Unicode properties,
\* char::is_ascii_digit is 0-9 only
is_uppercase(c) == c \in AsciiUpper \cup TwoByteUpper
is_lowercase(c) == c \in AsciiLower \cup TwoByteLower
is_ascii_digit(c) == c \in AsciiDigit

\* char::len_utf8
len_utf8(c) == IF c \in TwoByteUpper \cup TwoByteLower THEN 2 ELSE 1

RECURSIVE str_len(_)
\* str::len: the length of the string in BYTES
str_len(s) == IF s = <<>> THEN 0 ELSE len_utf8(Head(s)) + str_len(Tail(s))

(***************************************************************************)
(* Validation (solutions/module9 core)                                     *)
(***************************************************************************)
MinPasswordLen == 8

Any(s, P(_)) == \E i \in 1..Len(s) : P(s[i])

\* User::password_is_valid: length, uppercase, lowercase, digit, first failure wins
password_is_valid(password) ==
    IF str_len(password) < MinPasswordLen
    THEN Err(ApplicationError("Password must be at least 8 characters long"))
    ELSE IF ~Any(password, is_uppercase)
    THEN Err(ApplicationError("Password must contain at least one uppercase letter"))
    ELSE IF ~Any(password, is_lowercase)
    THEN Err(ApplicationError("Password must contain at least one lowercase letter"))
    ELSE IF ~Any(password, is_ascii_digit)
    THEN Err(ApplicationError("Password must contain at least one digit"))
    ELSE Ok(Unit)

\* the character classes of the regex ^[a-zA-Z0-9._%+-]+@[a-zA-Z0-9.-]+\.[a-zA-Z]{2,}$
LocalChars == AsciiLower \cup AsciiUpper \cup AsciiDigit \cup {".", "_", "%", "+", "-"}
DomainChars == AsciiLower \cup AsciiUpper \cup AsciiDigit \cup {".", "-"}
TldChars == AsciiLower \cup AsciiUpper

\* a match of the pattern without its anchors ^ and $: some part of the input fits
re_is_match_unanchored(input) ==
    \E from \in 1..Len(input), to \in 1..Len(input),
       at \in 1..Len(input), dot \in 1..Len(input) :
        /\ input[at] = "@"
        /\ at > from
        /\ \A i \in from..(at - 1) : input[i] \in LocalChars
        /\ input[dot] = "."
        /\ dot >= at + 2
        /\ \A i \in (at + 1)..(dot - 1) : input[i] \in DomainChars
        /\ to - dot >= 2
        /\ \A i \in (dot + 1)..to : input[i] \in TldChars

\* Regex::is_match for the anchored pattern: some '@' and some later '.' cut
\* the input into a local part, a domain and a top-level domain
re_is_match(input) ==
    \E at \in 1..Len(input), dot \in 1..Len(input) :
        /\ input[at] = "@"
        /\ at >= 2
        /\ \A i \in 1..(at - 1) : input[i] \in LocalChars
        /\ input[dot] = "."
        /\ dot >= at + 2
        /\ \A i \in (at + 1)..(dot - 1) : input[i] \in DomainChars
        /\ Len(input) - dot >= 2
        /\ \A i \in (dot + 1)..Len(input) : input[i] \in TldChars

\* User::email_is_valid
email_is_valid(input) ==
    IF re_is_match(input)
    THEN Ok(Unit)
    ELSE Err(ApplicationError("Invalid email address"))

(***************************************************************************)
(* Argon2 and the PHC string format (crates argon2 / password-hash).       *)
(* The digest is an injective, salt-keyed function of the password: two    *)
(* B64 characters per password character. The PHC string is written        *)
(* $argon2id$<salt>$<digest>; the constant version and parameter segments  *)
(* of the real string are left out.                                        *)
(***************************************************************************)
B64 == <<"A","B","C","D","E","F","G","H","I","J","K","L","M","N","O","P",
         "Q","R","S","T","U","V","W","X","Y","Z","a","b","c","d","e","f",
         "g","h","i","j","k","l","m","n","o","p","q","r","s","t","u","v",
         "w","x","y","z","0","1","2","3","4","5","6","7","8","9","+","/">>
B64Chars == {B64[i] : i \in 1..Len(B64)}
\* the characters a password of the model is written with, after the B64 ones
Charset == B64 \o <<"!", " ", "$", "@", ".", "U+00C9", "U+00E9">>

CharIndex(c) ==
    IF \E i \in 1..Len(Charset) : Charset[i] = c
    THEN (CHOOSE i \in 1..Len(Charset) : Charset[i] = c) - 1
    ELSE Len(Charset)

RECURSIVE SaltKey(_)
SaltKey(salt) == IF salt = <<>> THEN 0 ELSE CharIndex(Head(salt)) + SaltKey(Tail(salt))

RECURSIVE DigestFrom(_, _, _)
DigestFrom(password, key, pos) ==
    IF password = <<>> THEN <<>>
    ELSE LET x == (CharIndex(Head(password)) + key + pos) % (Len(Charset) + 1)
         IN  <<B64[(x \div 64) + 1], B64[(x % 64) + 1]>>
                 \o DigestFrom(Tail(password), key, pos + 1)

\* Argon2::hash_password_into: the raw digest of (password, salt); it is not
\* empty for the empty password
Argon2Digest(password, salt) ==
    <<B64[(SaltKey(salt) % 64) + 1]>> \o DigestFrom(password, SaltKey(salt), 1)

Argon2Ident == <<"a","r","g","o","n","2","i","d">>
IdentChars == AsciiLower \cup AsciiDigit \cup {"-"}

\* PasswordHash::to_string
PhcString(ident, salt, digest) == <<"$">> \o ident \o <<"$">> \o salt \o <<"$">> \o digest

\* Argon2::hash_password; it refuses only a password longer than u32::MAX bytes
Argon2_hash_password(password, salt) ==
    IF str_len(password) \div 65536 >= 65536
    THEN Err("PasswordHashError")
    ELSE Ok(PhcString(Argon2Ident, salt, Argon2Digest(password, salt)))

RECURSIVE SplitAt(_, _)
\* str::split: the fields of s between the separators
SplitAt(s, sep) ==
    IF \A i \in 1..Len(s) : s[i] # sep THEN <<s>>
    ELSE LET k == CHOOSE i \in 1..Len(s) : s[i] = sep /\ \A j \in 1..(i - 1) : s[j] # sep
         IN  <<SubSeq(s, 1, k - 1)>> \o SplitAt(SubSeq(s, k + 1, Len(s)), sep)

AllIn(s, set) == \A i \in 1..Len(s) : s[i] \in set

\* PasswordHash::new: parse $ident[$salt[$hash]]
PasswordHash_new(s) ==
    IF s = <<>> \/ Head(s) # "$" THEN Err("PhcStringField")
    ELSE LET fields == SplitAt(Tail(s), "$") IN
         IF Len(fields) > 3 THEN Err("PhcStringTrailingData")
         ELSE IF fields[1] = <<>> \/ ~AllIn(fields[1], IdentChars) THEN Err("ParamNameInvalid")
         ELSE IF \E i \in 2..Len(fields) : fields[i] = <<>> \/ ~AllIn(fields[i], B64Chars)
         THEN Err("B64Encoding")
         ELSE Ok([algorithm |-> fields[1],
                  salt |-> IF Len(fields) >= 2 THEN Some(fields[2]) ELSE None,
                  hash |-> IF Len(fields) >= 3 THEN Some(fields[3]) ELSE None])

\* PasswordVerifier::verify_password for Argon2
Argon2_verify_password(password, parsed) ==
    IF /\ IsSome(parsed.salt)
       /\ IsSome(parsed.hash)
       /\ parsed.algorithm = Argon2Ident
       /\ Unwrap(parsed.hash) = Argon2Digest(password, Unwrap(parsed.salt))
    THEN Ok(Unit)
    ELSE Err("Password")

\* what OsRng may hand to SaltString::generate
Salts == {<<"x">>, <<"y">>}

(***************************************************************************)
(* The User aggregate (solutions/module9 core)                             *)
(***************************************************************************)
UserDetails(email_address, name, age, password) ==
    [email_address |-> email_address, password |-> password, age |-> age, name |-> name]

Standard(user_details) == [tier |-> "Standard", user_details |-> user_details]
Premium(user_details) == [tier |-> "Premium", user_details |-> user_details, is_premium |-> TRUE]

\* a hash that stores the password as it came (the core of module7 does)
hash_plaintext(password, salt) == Ok(password)

\* a hash that returns the bare digest instead of the PHC string
hash_bare_digest(password, salt) == Ok(Argon2Digest(password, salt))

\* a hash that uses one salt whatever the generator drew
hash_fixed_salt(password, salt) ==
    Ok(PhcString(Argon2Ident, <<"x">>, Argon2Digest(password, <<"x">>)))

\* User::hash, with the salt SaltString::generate drew
hash(password, salt) ==
    LET h == Argon2_hash_password(password, salt) IN
    IF h.ok THEN Ok(h.val) ELSE Err(ApplicationError("Failed to hash password"))

\* a constructor that hashes without validating (the core of module8 does)
User_new_unvalidated(email_address, name, password, salt) ==
    LET hashed == hash(password, salt)
    IN  IF ~hashed.ok THEN hashed
        ELSE Ok(Standard(UserDetails(email_address, name, None, hashed.val)))

\* a constructor that keeps one address whatever address it is given
User_new_fixed_email(email_address, name, password, salt) ==
    LET email_ok == email_is_valid(email_address)
        password_ok == password_is_valid(password)
        hashed == hash(password, salt)
    IN  IF ~email_ok.ok THEN email_ok
        ELSE IF ~password_ok.ok THEN password_ok
        ELSE IF ~hashed.ok THEN hashed
        ELSE Ok(Standard(UserDetails(<<"x", "@", "y", ".", "z", "z">>, name, None, hashed.val)))

\* User::new, with the salt its call of hash draws
User_new(email_address, name, password, salt) ==
    LET email_ok == email_is_valid(email_address)
        password_ok == password_is_valid(password)
        hashed == hash(password, salt)
    IN  IF ~email_ok.ok THEN email_ok
        ELSE IF ~password_ok.ok THEN password_ok
        ELSE IF ~hashed.ok THEN hashed
        ELSE Ok(Standard(UserDetails(email_address, name, None, hashed.val)))

\* a reconstruction that hashes the column it was given once more
User_from_rehashed(email_address, name, hashed_password) ==
    Standard(UserDetails(email_address, name, None,
                         PhcString(Argon2Ident, <<"x">>, Argon2Digest(hashed_password, <<"x">>))))

\* a reconstruction that makes every stored user a Premium user
User_from_premium(email_address, name, hashed_password) ==
    Premium(UserDetails(email_address, name, None, hashed_password))

\* User::from
User_from(email_address, name, hashed_password) ==
    Standard(UserDetails(email_address, name, None, hashed_password))

\* User::details, User::email_address, User::name, User::password
details(user) == user.user_details
email_address_of(user) == user.user_details.email_address
name_of(user) == user.user_details.name
password_of(user) == user.user_details.password

\* a verification that reports an unparseable hash as a wrong password
verify_password_lenient(user, password) ==
    LET parsed_hash == PasswordHash_new(user.user_details.password) IN
    IF ~parsed_hash.ok THEN Err(IncorrectPassword)
    ELSE IF Argon2_verify_password(password, parsed_hash.val).ok THEN Ok(Unit)
    ELSE Err(IncorrectPassword)

\* User::verify_password
verify_password(user, password) ==
    LET parsed_hash == PasswordHash_new(password_of(user)) IN
    IF ~parsed_hash.ok THEN Err(ApplicationError("Failed to parse password hash"))
    ELSE IF Argon2_verify_password(password, parsed_hash.val).ok THEN Ok(Unit)
    ELSE Err(IncorrectPassword)

\* #[derive(Serialize)] #[serde(rename_all = "camelCase")] on UserDetails:
\* every field of the struct is written, under its camelCase name
UserDetails_serialize(user_details) ==
    [emailAddress |-> user_details.email_address, password |-> user_details.password,
     age |-> user_details.age, name |-> user_details.name]

\* Json<Option<UserDetails>> as the response carries it: null for None
Json(body) ==
    IF IsSome(body) THEN Some(UserDetails_serialize(Unwrap(body))) ELSE None

(***************************************************************************)
(* Inputs                                                                  *)
(***************************************************************************)
RECURSIVE SeqsUpTo(_, _)
\* every sequence over S of length at most n
SeqsUpTo(S, n) ==
    IF n = 0 THEN {<<>>}
    ELSE LET shorter == SeqsUpTo(S, n - 1)
         IN  shorter \cup {Append(s, c) : s \in shorter, c \in S}

\* passwords: nothing or four symbols, then up to MaxTail characters
PasswordPads == {<<>>, <<"!", "!", "!", "!">>}
PasswordChars == {"A", "a", "1", "U+00E9"}
Passwords == {pad \o tail : pad \in PasswordPads, tail \in SeqsUpTo(PasswordChars, MaxTail)}

\* "a@b.co", "A.b+1@c-d.e.Fg", "a@b.c", "ab.co", "@b.co", "a b@c.de",
\* "a@.co", "a@b.c0" and "a@b.co" followed by a line feed
Emails == {<<"a","@","b",".","c","o">>,
           <<"A",".","b","+","1","@","c","-","d",".","e",".","F","g">>,
           <<"a","@","b",".","c">>,
           <<"a","b",".","c","o">>,
           <<"@","b",".","c","o">>,
           <<"a"," ","b","@","c",".","d","e">>,
           <<"a","@",".","c","o">>,
           <<"a","@","b",".","c","0">>,
           <<"a","@","b",".","c","o","\n">>}
\* "Jo" and the empty name
Names == {<<"J","o">>, <<>>}

\* the candidates verify_password is tried with: the plaintext itself and
\* strings that differ from it at the end, at the start, in length or wholly
Candidates(p) ==
    {p, <<>>, p \o <<"a">>, <<"A">> \o p, <<"W","r","o","n","g"," ","1">>}
        \cup (IF p = <<>> THEN {} ELSE {SubSeq(p, 1, Len(p) - 1), Tail(p)})

(***************************************************************************)
(* Request tasks                                                           *)
(***************************************************************************)
Procs == 1..NProc

\* StatusCode; NoStatus while the handler has not answered
CREATED == "201 Created"
OK == "200 OK"
UNAUTHORIZED == "401 Unauthorized"
NOT_FOUND == "404 Not Found"
INTERNAL_SERVER_ERROR == "500 Internal Server Error"
NoStatus == "none"

IdleReq ==
    [pc |-> "idle", kind |-> "none", email_address |-> <<>>, name |-> <<>>,
     password |-> <<>>, user |-> None, new_failed |-> FALSE, lookups |-> 0,
     found |-> None, verifies |-> 0, verified |-> None, stores |-> 0,
     known |-> {}, registered |-> FALSE, driver_failed |-> FALSE, lookup_error |-> None,
     error |-> None, status |-> NoStatus, body |-> None]

(***************************************************************************)
(* The aggregate on its own: User::new on every input, then                *)
(* verify_password on the user it made                                     *)
(***************************************************************************)
InitAggregate ==
    /\ backend = "aggregate"
    /\ call \in [email_address : Emails, name : Names, password : Passwords]
    /\ made = None
    /\ checked = None
    /\ users = <<>>
    /\ lock = None
    /\ rows = <<>>
    /\ unique_key = FALSE
    /\ req = [p \in Procs |-> IdleReq]
    /\ started = 0
    /\ created = <<>>

NewUser ==
    /\ backend = "aggregate"
    /\ made = None
    /\ \E salt \in Salts :
           made' = Some(User_new(call.email_address, call.name, call.password, salt))
    /\ UNCHANGED <<backend, call, checked, users, lock, rows, unique_key, req, started, created>>

VerifyPassword ==
    /\ backend = "aggregate"
    /\ IsSome(made)
    /\ Unwrap(made).ok
    /\ checked = None
    /\ \E candidate \in Candidates(call.password) :
           checked' = Some([candidate |-> candidate,
                            result |-> verify_password(Unwrap(made).val, candidate)])
    /\ UNCHANGED <<backend, call, made, users, lock, rows, unique_key, req, started, created>>

NextAggregate == NewUser \/ VerifyPassword

SpecAggregate == InitAggregate /\ [][NextAggregate]_vars

(***************************************************************************)
(* A user rebuilt from a stored row: User::from on every column value,     *)
(* then verify_password on the user it made                                *)
(***************************************************************************)
\* the plaintexts a row was written for: "Passw0rd", "james" and the empty one
StoredPlaintexts ==
    {<<"P","a","s","s","w","0","r","d">>, <<"j","a","m","e","s">>, <<>>}

\* what the password column may hold for a plaintext: its hash, the hash of
\* another password, the plaintext itself, nothing, a hash with a character
\* outside the B64 alphabet, a string of another algorithm, a string with no
\* digest, a string with a field too many
StoredStrings(plaintext) ==
    {PhcString(Argon2Ident, salt, Argon2Digest(plaintext, salt)) : salt \in Salts}
        \cup {PhcString(Argon2Ident, <<"x">>, Argon2Digest(plaintext \o <<"a">>, <<"x">>)),
              plaintext,
              <<>>,
              PhcString(Argon2Ident, <<"x">>, <<"!", "!">>),
              PhcString(<<"s","c","r","y","p","t">>, <<"x">>, Argon2Digest(plaintext, <<"x">>)),
              <<"$">> \o Argon2Ident \o <<"$", "x">>,
              PhcString(Argon2Ident, <<"x">>, <<"A", "$", "B">>)}

InitStored ==
    /\ backend = "stored"
    /\ \E plaintext \in StoredPlaintexts :
           call \in [email_address : Emails, name : Names, password : {plaintext},
                     stored : StoredStrings(plaintext)]
    /\ made = None
    /\ checked = None
    /\ users = <<>>
    /\ lock = None
    /\ rows = <<>>
    /\ unique_key = FALSE
    /\ req = [p \in Procs |-> IdleReq]
    /\ started = 0
    /\ created = <<>>

\* User::from(&data.email_address, &data.name, &data.password)
FromStored ==
    /\ backend = "stored"
    /\ made = None
    /\ made' = Some(User_from(call.email_address, call.name, call.stored))
    /\ UNCHANGED <<backend, call, checked, users, lock, rows, unique_key, req, started, created>>

\* user.verify_password(candidate): &self, the user stays as it is
VerifyStored ==
    /\ backend = "stored"
    /\ IsSome(made)
    /\ checked = None
    /\ \E candidate \in Candidates(call.password) :
           checked' = Some([candidate |-> candidate,
                            result |-> verify_password(Unwrap(made), candidate)])
    /\ UNCHANGED <<backend, call, made, users, lock, rows, unique_key, req, started, created>>

NextStored == FromStored \/ VerifyStored

SpecStored == InitStored /\ [][NextStored]_vars

(***************************************************************************)
(* Hashing on its own: one plaintext hashed twice, each call with the salt *)
(* the generator draws, and the plaintext verified against both hashes     *)
(***************************************************************************)
InitHasher ==
    /\ backend = "hasher"
    /\ call \in [email_address : {<<"a","@","b",".","c","o">>}, name : {<<"J","o">>},
                  password : Passwords]
    /\ made = None
    /\ checked = None
    /\ users = <<>>
    /\ lock = None
    /\ rows = <<>>
    /\ unique_key = FALSE
    /\ req = [p \in Procs |-> IdleReq]
    /\ started = 0
    /\ created = <<>>

hasherUnchanged == <<backend, call, users, lock, rows, unique_key, req, started, created>>

\* User::hash(password)
HashFirst ==
    /\ backend = "hasher"
    /\ made = None
    /\ \E salt \in Salts :
           made' = Some([salt |-> salt, hashed |-> hash(call.password, salt)])
    /\ UNCHANGED checked
    /\ UNCHANGED hasherUnchanged

\* User::hash(password) once more
HashSecond ==
    /\ backend = "hasher"
    /\ IsSome(made)
    /\ checked = None
    /\ \E salt \in Salts :
           checked' = Some([salt |-> salt, hashed |-> hash(call.password, salt),
                            verified |-> None])
    /\ UNCHANGED made
    /\ UNCHANGED hasherUnchanged

\* verify_password(password) on a user holding the first hash and on one holding the second
VerifyBoth ==
    /\ backend = "hasher"
    /\ IsSome(made)
    /\ IsSome(checked)
    /\ Unwrap(made).hashed.ok
    /\ Unwrap(checked).hashed.ok
    /\ Unwrap(checked).verified = None
    /\ LET first == User_from(call.email_address, call.name, Unwrap(made).hashed.val)
           second == User_from(call.email_address, call.name, Unwrap(checked).hashed.val)
       IN  checked' = Some([Unwrap(checked) EXCEPT
                                !.verified = Some(<<verify_password(first, call.password),
                                                    verify_password(second, call.password)>>)])
    /\ UNCHANGED made
    /\ UNCHANGED hasherUnchanged

NextHasher == HashFirst \/ HashSecond \/ VerifyBoth

SpecHasher == InitHasher /\ [][NextHasher]_vars

(***************************************************************************)
(* Payloads of the request handlers                                        *)
(***************************************************************************)
EmailA == <<"a","@","b",".","c","o">>
EmailB == <<"c","@","d",".","i","o">>
\* "a@b.c": the top-level domain is one letter short
EmailMalformed == <<"a","@","b",".","c">>
\* "Passw0rd", "Testing!23" and the weak "james"
PasswordA == <<"P","a","s","s","w","0","r","d">>
PasswordB == <<"T","e","s","t","i","n","g","!","2","3">>
PasswordWeak == <<"j","a","m","e","s">>
NameJo == <<"J","o">>

Payload(e, n, pw) == [email_address |-> e, name |-> n, password |-> pw]

\* the in-memory build validates nothing: two emails and two passwords tell its cases apart
MemRequests == {Payload(e, NameJo, pw) : e \in {EmailA, EmailB}, pw \in {PasswordA, PasswordB}}
\* the relational build registers one well-formed email with two passwords,
\* a malformed email and a weak password
PgRegisterRequests ==
    {Payload(EmailA, NameJo, PasswordA), Payload(EmailA, NameJo, PasswordB),
     Payload(EmailMalformed, NameJo, PasswordA), Payload(EmailA, NameJo, PasswordWeak)}
\* and looks up that email and the one of the row it did not write
PgLookupRequests ==
    {Payload(EmailA, NameJo, PasswordA), Payload(EmailA, NameJo, PasswordB),
     Payload(EmailB, NameJo, PasswordWeak)}

Begin(p, kind, payload, pc) ==
    [IdleReq EXCEPT !.pc = pc, !.kind = kind,
                    !.email_address = payload.email_address,
                    !.name = IF kind = "register" THEN payload.name ELSE <<>>,
                    !.password = IF kind = "get" THEN <<>> ELSE payload.password,
                    !.known = {created[i].password :
                                   i \in {j \in 1..Len(created) :
                                              /\ created[j].email_address = payload.email_address
                                              /\ ~created[j].driver_failed}},
                    !.registered = \E j \in 1..Len(created) :
                                       created[j].email_address = payload.email_address]

\* the entry of the history for a registration answered 201
Registration(r, driver_failed) ==
    [email_address |-> r.email_address, password |-> r.password, user |-> Unwrap(r.user),
     driver_failed |-> driver_failed]

\* an error arm that hands the error to the caller
ErrorBody_detail(e) == Some(e)

\* the body of every error arm of the handlers: Json(None), the error dropped
ErrorBody(e) == None

\* the task has answered; its slot takes the next request
Recycle(p) ==
    /\ backend \in {"in_memory", "postgres"}
    /\ req[p].pc = "done"
    /\ req' = [req EXCEPT ![p] = IdleReq]
    /\ UNCHANGED <<backend, call, made, checked, users, lock, rows, unique_key, started, created>>

(***************************************************************************)
(* The in-memory build (module7): core without validation or hashing,      *)
(* InMemoryDataAccess, synchronous handlers                                *)
(***************************************************************************)
\* User::new of solutions/module7: the password is stored as given
User_new_plain(email_address, name, password) ==
    Standard(UserDetails(email_address, name, None, password))

\* User::verify_password of solutions/module7: string comparison, Result<(), ()>
verify_password_plain(user, password) ==
    IF user.user_details.password = password THEN Ok(Unit) ELSE Err(Unit)

\* a lock that is handed out while another task holds it
MutexLock_unguarded(p) == lock' = Some(p)

\* Mutex::lock on a free mutex
MutexLock(p) ==
    /\ lock = None
    /\ lock' = Some(p)

\* the MutexGuard temporary is dropped at the end of the statement
MutexUnlock(p) ==
    /\ lock = Some(p)
    /\ lock' = None

\* a push that replaces the collection by the new entry
VecPush_replace(vec, user) == <<user>>

\* a push that refuses a user whose email the collection already holds
VecPush_unique(vec, user) ==
    IF \E i \in 1..Len(vec) : vec[i].user_details.email_address = user.user_details.email_address
    THEN vec
    ELSE Append(vec, user)

\* Vec::push
VecPush(vec, user) == Append(vec, user)

\* a search that keeps the last entry with the email
VecFind_last(vec, email_address) ==
    IF \E i \in 1..Len(vec) : email_address_of(vec[i]) = email_address
    THEN Some(vec[CHOOSE i \in 1..Len(vec) :
                      /\ email_address_of(vec[i]) = email_address
                      /\ \A j \in (i + 1)..Len(vec) : email_address_of(vec[j]) # email_address])
    ELSE None

\* self.users.lock().unwrap().iter().find(|u| u.email_address() == email_address).cloned()
VecFind(vec, email_address) ==
    IF \E i \in 1..Len(vec) : email_address_of(vec[i]) = email_address
    THEN Some(vec[CHOOSE i \in 1..Len(vec) :
                      /\ email_address_of(vec[i]) = email_address
                      /\ \A j \in 1..(i - 1) : email_address_of(vec[j]) # email_address])
    ELSE None

InitInMemory ==
    /\ backend = "in_memory"
    /\ call = [email_address |-> <<>>, name |-> <<>>, password |-> <<>>]
    /\ made = None
    /\ checked = None
    /\ users = <<>>
    /\ lock = None
    /\ rows = <<>>
    /\ unique_key = FALSE
    /\ req = [p \in Procs |-> IdleReq]
    /\ started = 0
    /\ created = <<>>

memUnchanged == <<backend, call, made, checked, rows, unique_key>>

\* the requests the clients send: MaxMemReqs from concurrent clients,
\* MaxSerialReqs from one client that waits for each answer
MemBudget == IF "serial" \in DOMAIN call THEN MaxSerialReqs ELSE MaxMemReqs

\* register_user up to the call of store: User::new, then store waits for the lock
MemRegisterBegin(p) ==
    /\ backend = "in_memory"
    /\ req[p].pc = "idle"
    /\ started < MemBudget
    /\ \E payload \in MemRequests :
           req' = [req EXCEPT ![p] =
                       [Begin(p, "register", payload, "store_lock") EXCEPT
                            !.user = Some(User_new_plain(payload.email_address, payload.name,
                                                         payload.password))]]
    /\ started' = started + 1
    /\ UNCHANGED <<users, lock, created>>
    /\ UNCHANGED memUnchanged

\* login and get_user_details up to the call of with_email_address
MemLookupBegin(p) ==
    /\ backend = "in_memory"
    /\ req[p].pc = "idle"
    /\ started < MemBudget
    /\ \E payload \in MemRequests, kind \in {"login", "get"} :
           req' = [req EXCEPT ![p] = Begin(p, kind, payload, "find_lock")]
    /\ started' = started + 1
    /\ UNCHANGED <<users, lock, created>>
    /\ UNCHANGED memUnchanged

\* store: self.users.lock().unwrap()
MemStoreLock(p) ==
    /\ backend = "in_memory"
    /\ req[p].pc = "store_lock"
    /\ MutexLock(p)
    /\ req' = [req EXCEPT ![p].pc = "store_push"]
    /\ UNCHANGED <<users, started, created>>
    /\ UNCHANGED memUnchanged

\* store: .push(user)
MemStorePush(p) ==
    /\ backend = "in_memory"
    /\ req[p].pc = "store_push"
    /\ users' = VecPush(users, Unwrap(req[p].user))
    /\ req' = [req EXCEPT ![p].pc = "store_unlock", ![p].stores = @ + 1]
    /\ UNCHANGED <<lock, started, created>>
    /\ UNCHANGED memUnchanged

\* store returns (the guard is dropped) and register_user answers 201 with the details
MemRegisterFinish(p) ==
    /\ backend = "in_memory"
    /\ req[p].pc = "store_unlock"
    /\ MutexUnlock(p)
    /\ req' = [req EXCEPT ![p].pc = "done", ![p].status = CREATED,
                          ![p].body = Some(details(Unwrap(req[p].user)))]
    /\ created' = Append(created, Registration(req[p], FALSE))
    /\ UNCHANGED <<users, started>>
    /\ UNCHANGED memUnchanged

\* with_email_address: self.users.lock().unwrap()
MemFindLock(p) ==
    /\ backend = "in_memory"
    /\ req[p].pc = "find_lock"
    /\ MutexLock(p)
    /\ req' = [req EXCEPT ![p].pc = "find_read"]
    /\ UNCHANGED <<users, started, created>>
    /\ UNCHANGED memUnchanged

\* with_email_address: .iter().find(..).cloned()
MemFindRead(p) ==
    /\ backend = "in_memory"
    /\ req[p].pc = "find_read"
    /\ req' = [req EXCEPT ![p].pc = "find_unlock", ![p].lookups = @ + 1,
                          ![p].found = VecFind(users, req[p].email_address)]
    /\ UNCHANGED <<users, lock, started, created>>
    /\ UNCHANGED memUnchanged

\* with_email_address returns (the guard is dropped); login goes on to verify
MemLoginFound(p) ==
    /\ backend = "in_memory"
    /\ req[p].pc = "find_unlock"
    /\ req[p].kind = "login"
    /\ MutexUnlock(p)
    /\ req' = [req EXCEPT ![p] =
                  IF IsSome(req[p].found)
                  THEN [@ EXCEPT !.pc = "verify"]
                  ELSE [@ EXCEPT !.pc = "done", !.status = NOT_FOUND,
                                 !.body = ErrorBody(Unit)]]
    /\ UNCHANGED <<users, started, created>>
    /\ UNCHANGED memUnchanged

\* login: match user.verify_password(&payload.password)
MemLoginVerify(p) ==
    /\ backend = "in_memory"
    /\ req[p].pc = "verify"
    /\ LET user == Unwrap(req[p].found)
           res == verify_password_plain(user, req[p].password)
       IN  req' = [req EXCEPT ![p] =
                      [@ EXCEPT !.pc = "done", !.verifies = @ + 1, !.verified = Some(res),
                                !.status = IF res.ok THEN OK ELSE UNAUTHORIZED,
                                !.body = IF res.ok THEN Some(details(user))
                                         ELSE ErrorBody(res.err)]]
    /\ UNCHANGED <<users, lock, started, created>>
    /\ UNCHANGED memUnchanged

\* get_user_details: with_email_address returns and the handler answers
MemGetFinish(p) ==
    /\ backend = "in_memory"
    /\ req[p].pc = "find_unlock"
    /\ req[p].kind = "get"
    /\ MutexUnlock(p)
    /\ req' = [req EXCEPT ![p] =
                  IF IsSome(req[p].found)
                  THEN [@ EXCEPT !.pc = "done", !.status = OK,
                                 !.body = Some(details(Unwrap(req[p].found)))]
                  ELSE [@ EXCEPT !.pc = "done", !.status = NOT_FOUND,
                                 !.body = ErrorBody(Unit)]]
    /\ UNCHANGED <<users, started, created>>
    /\ UNCHANGED memUnchanged

MemStep(p) ==
    \/ MemRegisterBegin(p)
    \/ MemLookupBegin(p)
    \/ MemStoreLock(p)
    \/ MemStorePush(p)
    \/ MemRegisterFinish(p)
    \/ MemFindLock(p)
    \/ MemFindRead(p)
    \/ MemLoginFound(p)
    \/ MemLoginVerify(p)
    \/ MemGetFinish(p)
    \/ Recycle(p)

NextInMemory == \E p \in Procs : MemStep(p)

SpecInMemory == InitInMemory /\ [][NextInMemory]_vars

\* the scheduler runs every task that can take a step
FairSpecInMemory == SpecInMemory /\ \A p \in Procs : WF_vars(MemStep(p))

\* One client that sends its next request when the last one is answered: the
\* requests run one after the other in one task.
InitInMemorySerial ==
    /\ backend = "in_memory"
    /\ call = [email_address |-> <<>>, name |-> <<>>, password |-> <<>>, serial |-> TRUE]
    /\ made = None
    /\ checked = None
    /\ users = <<>>
    /\ lock = None
    /\ rows = <<>>
    /\ unique_key = FALSE
    /\ req = [p \in Procs |-> IdleReq]
    /\ started = 0
    /\ created = <<>>

MemTasks == {1}

NextInMemorySerial == \E p \in MemTasks : MemStep(p)

SpecInMemorySerial == InitInMemorySerial /\ [][NextInMemorySerial]_vars

(***************************************************************************)
(* A caller of InMemoryDataAccess on its own: it stores users, looks an     *)
(* email up, changes the User it was handed and looks the email up again.  *)
(* Each call is the whole of lock, operation and drop of the guard.        *)
(***************************************************************************)
\* User::update_name, User::update_age, User::update_to_premium (solutions/module7)
\* a rename that also forgets the age
update_name_clears_age(user, new_name) ==
    [user EXCEPT !.user_details.name = new_name, !.user_details.age = None]

\* an upgrade that switches the tier both ways
update_to_premium_toggle(user) ==
    IF user.tier = "Standard" THEN Premium(user.user_details)
    ELSE Standard(user.user_details)

\* an upgrade that rebuilds the details of a Premium user without the age
update_to_premium_rebuild(user) ==
    IF user.tier = "Standard" THEN Premium(user.user_details)
    ELSE Premium([user.user_details EXCEPT !.age = None])

update_name(user, new_name) == [user EXCEPT !.user_details.name = new_name]
update_age(user, new_age) == [user EXCEPT !.user_details.age = Some(new_age)]
update_to_premium(user) ==
    IF user.tier = "Standard" THEN Premium(user.user_details) ELSE user

\* PartialEq for User: the email addresses of two users of the same variant
User_eq(self, other) ==
    IF self.tier = "Standard" /\ other.tier = "Standard"
    THEN self.user_details.email_address = other.user_details.email_address
    ELSE IF self.tier = "Premium" /\ other.tier = "Premium"
    THEN self.user_details.email_address = other.user_details.email_address
    ELSE FALSE

\* Iterator::find: the position of the first entry with the email, 0 without one
Position(vec, email_address) ==
    IF \E i \in 1..Len(vec) : email_address_of(vec[i]) = email_address
    THEN CHOOSE i \in 1..Len(vec) :
             /\ email_address_of(vec[i]) = email_address
             /\ \A j \in 1..(i - 1) : email_address_of(vec[j]) # email_address
    ELSE 0

\* a lookup that hands out the entry itself
cloned_shared(position) == position

\* Option<&User>::cloned: the caller owns a copy; the entry of the collection
\* the returned value still is (0: none)
cloned(position) == 0

NameAl == <<"A","l">>
AgeThirty == 30

InitCaller ==
    /\ backend = "caller"
    /\ call \in [email_address : {EmailA, EmailB}, name : {NameJo}, password : {PasswordA}]
    /\ made = None
    /\ checked = None
    /\ users = <<>>
    /\ lock = None
    /\ rows = <<>>
    /\ unique_key = FALSE
    /\ req = [p \in Procs |-> IdleReq]
    /\ started = 0
    /\ created = <<>>

callerUnchanged == <<backend, call, lock, rows, unique_key, req, started, created>>

\* data_access.store(User::new(..))
CallerStore ==
    /\ backend = "caller"
    /\ lock = None
    /\ Len(users) < MaxStored
    /\ \E payload \in MemRequests :
           users' = VecPush(users, User_new_plain(payload.email_address, payload.name,
                                                  payload.password))
    /\ UNCHANGED <<made, checked>>
    /\ UNCHANGED callerUnchanged

\* let mut user = data_access.with_email_address(email)
CallerFind ==
    /\ backend = "caller"
    /\ lock = None
    /\ made = None
    /\ made' = Some([returned |-> VecFind(users, call.email_address),
                     held |-> VecFind(users, call.email_address),
                     entry |-> cloned(Position(users, call.email_address))])
    /\ UNCHANGED <<users, checked>>
    /\ UNCHANGED callerUnchanged

\* user.update_name(..), user.update_age(..), user = user.update_to_premium()
CallerUpdate ==
    /\ backend = "caller"
    /\ IsSome(made)
    /\ IsSome(Unwrap(made).held)
    /\ checked = None
    /\ LET user == Unwrap(Unwrap(made).held)
           entry == Unwrap(made).entry
       IN  \E updated \in {update_name(user, NameAl), update_age(user, AgeThirty),
                            update_to_premium(user)} :
               /\ made' = Some([Unwrap(made) EXCEPT !.held = Some(updated)])
               /\ users' = IF entry = 0 THEN users ELSE [users EXCEPT ![entry] = updated]
    /\ UNCHANGED checked
    /\ UNCHANGED callerUnchanged

\* a later data_access.with_email_address(email)
CallerFindAgain ==
    /\ backend = "caller"
    /\ lock = None
    /\ IsSome(made)
    /\ checked = None
    /\ checked' = Some([found |-> VecFind(users, call.email_address)])
    /\ UNCHANGED <<users, made>>
    /\ UNCHANGED callerUnchanged

NextCaller == CallerStore \/ CallerFind \/ CallerUpdate \/ CallerFindAgain

SpecCaller == InitCaller /\ [][NextCaller]_vars

(***************************************************************************)
(* One User value through its life: User::new, then update_name,           *)
(* update_age and update_to_premium in any order, and comparisons with ==. *)
(* made holds the user, checked the last call made on it.                  *)
(***************************************************************************)
AgeTen == 10
NewNames == {NameAl, <<>>}
NewAges == {AgeTen, AgeThirty}

InitTiers ==
    /\ backend = "tiers"
    /\ call \in [email_address : {EmailA, EmailB, EmailMalformed}, name : Names,
                  password : {PasswordA, PasswordWeak}, salt : Salts]
    /\ made = None
    /\ checked = None
    /\ users = <<>>
    /\ lock = None
    /\ rows = <<>>
    /\ unique_key = FALSE
    /\ req = [p \in Procs |-> IdleReq]
    /\ started = 0
    /\ created = <<>>

tiersUnchanged == <<backend, call, users, lock, rows, unique_key, req, started, created>>

LastCall(op, before, arg, equal) ==
    Some([op |-> op, before |-> before, arg |-> arg, equal |-> equal])

\* let mut user = User::new(email_address, name, password).unwrap()
TiersNew ==
    /\ backend = "tiers"
    /\ made = None
    /\ LET result == User_new(call.email_address, call.name, call.password, call.salt)
       IN  /\ result.ok
           /\ made' = Some(result.val)
    /\ UNCHANGED checked
    /\ UNCHANGED tiersUnchanged

\* user.update_name(new_name)
TiersUpdateName ==
    /\ backend = "tiers"
    /\ IsSome(made)
    /\ \E new_name \in NewNames :
           /\ made' = Some(update_name(Unwrap(made), new_name))
           /\ checked' = LastCall("update_name", Unwrap(made), <<new_name>>, FALSE)
    /\ UNCHANGED tiersUnchanged

\* user.update_age(new_age)
TiersUpdateAge ==
    /\ backend = "tiers"
    /\ IsSome(made)
    /\ \E new_age \in NewAges :
           /\ made' = Some(update_age(Unwrap(made), new_age))
           /\ checked' = LastCall("update_age", Unwrap(made), <<new_age>>, FALSE)
    /\ UNCHANGED tiersUnchanged

\* let user = user.update_to_premium()
TiersUpdateToPremium ==
    /\ backend = "tiers"
    /\ IsSome(made)
    /\ made' = Some(update_to_premium(Unwrap(made)))
    /\ checked' = LastCall("update_to_premium", Unwrap(made), <<>>, FALSE)
    /\ UNCHANGED tiersUnchanged

\* the users the held one is compared with: the value it had before the last
\* call, and reconstructed users of either email, Standard or upgraded
Peers ==
    (IF IsSome(checked) THEN {Unwrap(checked).before} ELSE {})
        \cup { User_from(e, NameAl, password_of(Unwrap(made))) : e \in {EmailA, EmailB} }
        \cup { update_to_premium(User_from(e, NameAl, password_of(Unwrap(made)))) :
                   e \in {EmailA, EmailB} }

\* user == other
TiersCompare ==
    /\ backend = "tiers"
    /\ IsSome(made)
    /\ \E other \in Peers :
           checked' = LastCall("eq", Unwrap(made), <<other>>, User_eq(Unwrap(made), other))
    /\ UNCHANGED made
    /\ UNCHANGED tiersUnchanged

NextTiers ==
    TiersNew \/ TiersUpdateName \/ TiersUpdateAge \/ TiersUpdateToPremium \/ TiersCompare

SpecTiers == InitTiers /\ [][NextTiers]_vars

(***************************************************************************)
(* The relational build (module9, module11): validating core,              *)
(* PostgresUsers, asynchronous handlers                                    *)
(***************************************************************************)
Row(user) ==
    [email_address |-> email_address_of(user), name |-> name_of(user),
     password |-> password_of(user)]

Matching(table, email_address) ==
    {i \in 1..Len(table) : table[i].email_address = email_address}

\* what the driver can answer to the SELECT: a failure, no row, or one of the
\* matching rows (the query has no ORDER BY)
SelectOutcomes(table, email_address) ==
    {[error |-> TRUE, record |-> None]}
        \cup (IF Matching(table, email_address) = {}
              THEN {[error |-> FALSE, record |-> None]}
              ELSE {[error |-> FALSE, record |-> Some(table[i])] :
                        i \in Matching(table, email_address)})

\* a lookup that reports the driver's failure as a DatabaseError
PostgresUsers_with_email_address_db_error(outcome) ==
    IF outcome.error THEN Err(DatabaseError("driver"))
    ELSE IF IsSome(outcome.record)
    THEN LET data == Unwrap(outcome.record)
         IN  Ok(User_from(data.email_address, data.name, data.password))
    ELSE Err(UserDoesNotExist)

\* PostgresUsers::with_email_address, given the answer of fetch_optional
PostgresUsers_with_email_address(outcome) ==
    IF outcome.error THEN Err(UserDoesNotExist)
    ELSE IF IsSome(outcome.record)
    THEN LET data == Unwrap(outcome.record)
         IN  Ok(User_from(data.email_address, data.name, data.password))
    ELSE Err(UserDoesNotExist)

\* the table after the INSERT: the statement is lost with a failing driver
\* and refused by a uniqueness constraint on email_address
Insert(table, unique, user, driver_fails) ==
    IF driver_fails \/ (unique /\ Matching(table, email_address_of(user)) # {})
    THEN table
    ELSE Append(table, Row(user))

\* a store that hands the failure of its INSERT to the caller
PostgresUsers_store_reporting(table, unique, user, driver_fails) ==
    [table |-> Insert(table, unique, user, driver_fails),
     result |-> IF driver_fails \/ (unique /\ Matching(table, email_address_of(user)) # {})
                THEN Err(ApplicationError(<<"d", "b">>))
                ELSE Ok(Unit)]

\* PostgresUsers::store: the result of fetch_one is bound to _rec and dropped
PostgresUsers_store(table, unique, user, driver_fails) ==
    [table |-> Insert(table, unique, user, driver_fails), result |-> Ok(Unit)]

\* a match on the error without the UserDoesNotExist arm
ErrorStatus_no_404(e) == INTERNAL_SERVER_ERROR

\* the handlers' match on the error: UserDoesNotExist => 404, _ => 500
ErrorStatus(e) ==
    IF e.kind = "UserDoesNotExist" THEN NOT_FOUND ELSE INTERNAL_SERVER_ERROR

\* login's match on verify_password: Err(_) => 401
VerifyErrorStatus(e) == UNAUTHORIZED

\* a row another client wrote: its password column holds no PHC string
ForeignRow == [email_address |-> EmailB, name |-> NameJo, password |-> PasswordWeak]

InitPostgres ==
    /\ backend = "postgres"
    /\ call = [email_address |-> <<>>, name |-> <<>>, password |-> <<>>]
    /\ made = None
    /\ checked = None
    /\ users = <<>>
    /\ lock = None
    /\ rows \in {<<>>, <<ForeignRow>>}
    /\ unique_key \in BOOLEAN
    /\ req = [p \in Procs |-> IdleReq]
    /\ started = 0
    /\ created = <<>>

pgUnchanged == <<backend, call, made, checked, users, lock, unique_key>>

\* register_user up to the first await: User::new, and the answer when it fails
PgRegisterBegin(p) ==
    /\ backend = "postgres"
    /\ req[p].pc = "idle"
    /\ started < MaxReqs
    /\ \E payload \in PgRegisterRequests, salt \in Salts :
           LET user == User_new(payload.email_address, payload.name, payload.password, salt)
               r == Begin(p, "register", payload, "store")
           IN  req' = [req EXCEPT ![p] =
                          IF user.ok
                          THEN [r EXCEPT !.user = Some(user.val)]
                          ELSE [r EXCEPT !.pc = "done", !.new_failed = TRUE,
                                         !.error = Some(user.err),
                                         !.status = ErrorStatus(user.err), !.body = ErrorBody(user.err)]]
    /\ started' = started + 1
    /\ UNCHANGED <<rows, created>>
    /\ UNCHANGED pgUnchanged

\* register_user: store(user.clone()).await and the answer
PgRegisterStore(p) ==
    /\ backend = "postgres"
    /\ req[p].pc = "store"
    /\ \E driver_fails \in BOOLEAN :
           LET user == Unwrap(req[p].user)
               data_access == PostgresUsers_store(rows, unique_key, user, driver_fails)
           IN  /\ rows' = data_access.table
               /\ req' = [req EXCEPT ![p] =
                             IF data_access.result.ok
                             THEN [@ EXCEPT !.pc = "done", !.stores = @ + 1, !.status = CREATED,
                                            !.body = Some(details(user))]
                             ELSE [@ EXCEPT !.pc = "done", !.stores = @ + 1,
                                            !.error = Some(data_access.result.err),
                                            !.status = ErrorStatus(data_access.result.err),
                                            !.body = ErrorBody(data_access.result.err)]]
               /\ created' = IF data_access.result.ok
                             THEN Append(created, Registration(req[p], driver_fails))
                             ELSE created
    /\ UNCHANGED started
    /\ UNCHANGED pgUnchanged

\* login and get_user_details up to the await of with_email_address
PgLookupBegin(p) ==
    /\ backend = "postgres"
    /\ req[p].pc = "idle"
    /\ started < MaxReqs
    /\ \E payload \in PgLookupRequests, kind \in {"login", "get"} :
           req' = [req EXCEPT ![p] = Begin(p, kind, payload, "find")]
    /\ started' = started + 1
    /\ UNCHANGED <<rows, created>>
    /\ UNCHANGED pgUnchanged

\* login: with_email_address(..).await and the match on its result
PgLoginFind(p) ==
    /\ backend = "postgres"
    /\ req[p].pc = "find"
    /\ req[p].kind = "login"
    /\ \E outcome \in SelectOutcomes(rows, req[p].email_address) :
           LET user == PostgresUsers_with_email_address(outcome)
           IN  req' = [req EXCEPT ![p] =
                          IF user.ok
                          THEN [@ EXCEPT !.pc = "verify", !.lookups = @ + 1,
                                         !.found = Some(user.val)]
                          ELSE [@ EXCEPT !.pc = "done", !.lookups = @ + 1,
                                         !.driver_failed = outcome.error,
                                         !.lookup_error = Some(user.err),
                                         !.error = Some(user.err),
                                         !.status = ErrorStatus(user.err), !.body = ErrorBody(user.err)]]
    /\ UNCHANGED <<rows, started, created>>
    /\ UNCHANGED pgUnchanged

\* login: match user.verify_password(&payload.password)
PgLoginVerify(p) ==
    /\ backend = "postgres"
    /\ req[p].pc = "verify"
    /\ LET user == Unwrap(req[p].found)
           res == verify_password(user, req[p].password)
       IN  req' = [req EXCEPT ![p] =
                      IF res.ok
                      THEN [@ EXCEPT !.pc = "done", !.verifies = @ + 1, !.verified = Some(res),
                                     !.status = OK, !.body = Some(details(user))]
                      ELSE [@ EXCEPT !.pc = "done", !.verifies = @ + 1, !.verified = Some(res),
                                     !.error = Some(res.err),
                                     !.status = VerifyErrorStatus(res.err),
                                     !.body = ErrorBody(res.err)]]
    /\ UNCHANGED <<rows, started, created>>
    /\ UNCHANGED pgUnchanged

\* get_user_details: with_email_address(..).await and the answer
PgGetFind(p) ==
    /\ backend = "postgres"
    /\ req[p].pc = "find"
    /\ req[p].kind = "get"
    /\ \E outcome \in SelectOutcomes(rows, req[p].email_address) :
           LET user == PostgresUsers_with_email_address(outcome)
           IN  req' = [req EXCEPT ![p] =
                          IF user.ok
                          THEN [@ EXCEPT !.pc = "done", !.lookups = @ + 1,
                                         !.found = Some(user.val), !.status = OK,
                                         !.body = Some(details(user.val))]
                          ELSE [@ EXCEPT !.pc = "done", !.lookups = @ + 1,
                                         !.driver_failed = outcome.error,
                                         !.lookup_error = Some(user.err),
                                         !.error = Some(user.err),
                                         !.status = ErrorStatus(user.err), !.body = ErrorBody(user.err)]]
    /\ UNCHANGED <<rows, started, created>>
    /\ UNCHANGED pgUnchanged

PgStep(p) ==
    \/ PgRegisterBegin(p)
    \/ PgRegisterStore(p)
    \/ PgLookupBegin(p)
    \/ PgLoginFind(p)
    \/ PgLoginVerify(p)
    \/ PgGetFind(p)
    \/ Recycle(p)

\* Every handler of this build touches shared state once, in its one database
\* statement, and everything else it does is local to the request: concurrent
\* requests are serialised by the database, and one task shows them in turn.
PgTasks == {1}

NextPostgres == \E p \in PgTasks : PgStep(p)

SpecPostgres == InitPostgres /\ [][NextPostgres]_vars

(***************************************************************************)
(* A caller of the DataAccess trait that builds a user, updates it, stores *)
(* it and reads it back by its email, against either backend (call.target).*)
(* made holds the user, checked the value stored and the value read back.  *)
(***************************************************************************)
InitRoundTrip ==
    /\ backend = "round_trip"
    /\ call \in [target : {"postgres", "in_memory"}, email_address : {EmailA, EmailB},
                 name : {NameJo}, password : {PasswordA}, salt : Salts]
    /\ made = None
    /\ checked = None
    /\ users = <<>>
    /\ lock = None
    /\ rows \in {<<>>, <<ForeignRow>>}
    /\ unique_key \in BOOLEAN
    /\ req = [p \in Procs |-> IdleReq]
    /\ started = 0
    /\ created = <<>>

roundTripUnchanged == <<backend, call, lock, unique_key, req, started, created>>

\* let mut user = User::new(email_address, name, password).unwrap()
RoundTripNew ==
    /\ backend = "round_trip"
    /\ made = None
    /\ made' = IF call.target = "postgres"
               THEN Some(User_new(call.email_address, call.name, call.password, call.salt).val)
               ELSE Some(User_new_plain(call.email_address, call.name, call.password))
    /\ UNCHANGED <<checked, users, rows>>
    /\ UNCHANGED roundTripUnchanged

\* user.update_age(..), user = user.update_to_premium(), before the store
RoundTripUpdate ==
    /\ backend = "round_trip"
    /\ IsSome(made)
    /\ checked = None
    /\ \E updated \in {update_age(Unwrap(made), new_age) : new_age \in NewAges}
                          \cup {update_to_premium(Unwrap(made))} :
           /\ updated # Unwrap(made)
           /\ made' = Some(updated)
    /\ UNCHANGED <<checked, users, rows>>
    /\ UNCHANGED roundTripUnchanged

\* data_access.store(user.clone()).await
RoundTripStore ==
    /\ backend = "round_trip"
    /\ IsSome(made)
    /\ checked = None
    /\ \E driver_fails \in BOOLEAN :
           IF call.target = "postgres"
           THEN /\ rows' = PostgresUsers_store(rows, unique_key, Unwrap(made), driver_fails).table
                /\ users' = users
           ELSE /\ ~driver_fails
                /\ users' = VecPush(users, Unwrap(made))
                /\ rows' = rows
    /\ checked' = Some([stored |-> Unwrap(made), found |-> None])
    /\ UNCHANGED made
    /\ UNCHANGED roundTripUnchanged

\* data_access.with_email_address(user.email_address()).await
RoundTripFind ==
    /\ backend = "round_trip"
    /\ IsSome(checked)
    /\ Unwrap(checked).found = None
    /\ IF call.target = "postgres"
       THEN \E outcome \in SelectOutcomes(rows, call.email_address) :
                checked' = Some([Unwrap(checked) EXCEPT
                                    !.found = Some(PostgresUsers_with_email_address(outcome))])
       ELSE checked' = Some([Unwrap(checked) EXCEPT
                                !.found = Some(VecFind(users, call.email_address))])
    /\ UNCHANGED <<made, users, rows>>
    /\ UNCHANGED roundTripUnchanged

NextRoundTrip == RoundTripNew \/ RoundTripUpdate \/ RoundTripStore \/ RoundTripFind

SpecRoundTrip == InitRoundTrip /\ [][NextRoundTrip]_vars

(***************************************************************************)
(* The shared-user demo of module2: main builds Arc<Mutex<User>>, prints   *)
(* it, spawns two tasks that each sleep, lock, set the name and add one to *)
(* update_count, awaits both and prints the user again.  made holds the    *)
(* User behind the mutex, call the position of main and the strong count   *)
(* of the Arc, req[t].pc the                                               *)
(* position of task t, checked the order in which the tasks took the lock  *)
(* and what main printed last.                                             *)
(***************************************************************************)
Main == 0
DemoTasks == {1, 2}
NameJames == <<"J", "a", "m", "e", "s">>
NameJohn == <<"J", "o", "h", "n">>
NameDoe == <<"D", "o", "e">>
TaskName(t) == IF t = 1 THEN NameJohn ELSE NameDoe
SpawnPc(t) == IF t = 1 THEN "spawn1" ELSE "spawn2"
AwaitPc(t) == IF t = 1 THEN "await1" ELSE "await2"
AfterSpawn(t) == IF t = 1 THEN "spawn2" ELSE "await1"
AfterAwait(t) == IF t = 1 THEN "await2" ELSE "final_lock"

\* i32 += : the sum, of the value read and the addend
AddAssign(count, n) == count + n

\* a task: its position, and the count its += has read
DemoTask == [pc |-> "idle", loaded |-> 0]

InitDemo ==
    /\ backend = "demo"
    /\ call = [pc |-> "first_lock", strong_count |-> 1]
    /\ made = Some([name |-> NameJames, update_count |-> 0])
    /\ checked = Some([order |-> <<>>, printed |-> None])
    /\ users = <<>>
    /\ lock = None
    /\ rows = <<>>
    /\ unique_key = FALSE
    /\ req = [p \in Procs |-> DemoTask]
    /\ started = 0
    /\ created = <<>>

demoUnchanged == <<backend, users, rows, unique_key, started, created>>

\* main: let locked_user = user.lock().unwrap()
MainFirstLock ==
    /\ backend = "demo"
    /\ call.pc = "first_lock"
    /\ MutexLock(Main)
    /\ call' = [call EXCEPT !.pc = "first_print"]
    /\ UNCHANGED <<made, checked, req>>
    /\ UNCHANGED demoUnchanged

\* main: println!, and the guard goes out of scope
MainFirstPrint ==
    /\ backend = "demo"
    /\ call.pc = "first_print"
    /\ MutexUnlock(Main)
    /\ call' = [call EXCEPT !.pc = "clone"]
    /\ checked' = Some([Unwrap(checked) EXCEPT !.printed = made])
    /\ UNCHANGED <<made, req>>
    /\ UNCHANGED demoUnchanged

\* main: let user_clone1 = Arc::clone(&user); let user_clone2 = Arc::clone(&user)
MainClone ==
    /\ backend = "demo"
    /\ call.pc = "clone"
    /\ call' = [call EXCEPT !.pc = "spawn1", !.strong_count = @ + 2]
    /\ UNCHANGED <<made, checked, lock, req>>
    /\ UNCHANGED demoUnchanged

\* main: tokio::spawn(async move { .. })
MainSpawn(t) ==
    /\ backend = "demo"
    /\ call.pc = SpawnPc(t)
    /\ req' = [req EXCEPT ![t].pc = "start"]
    /\ call' = [call EXCEPT !.pc = AfterSpawn(t)]
    /\ UNCHANGED <<made, checked, lock>>
    /\ UNCHANGED demoUnchanged

\* task: the first poll runs up to tokio::time::sleep(..).await
TaskStart(t) ==
    /\ backend = "demo"
    /\ req[t].pc = "start"
    /\ req' = [req EXCEPT ![t].pc = "sleep"]
    /\ UNCHANGED <<call, made, checked, lock>>
    /\ UNCHANGED demoUnchanged

\* task: tokio::time::sleep(..).await returns
TaskWake(t) ==
    /\ backend = "demo"
    /\ req[t].pc = "sleep"
    /\ req' = [req EXCEPT ![t].pc = "lock"]
    /\ UNCHANGED <<call, made, checked, lock>>
    /\ UNCHANGED demoUnchanged

\* task: let mut locked_user = user_clone.lock().unwrap()
TaskLock(t) ==
    /\ backend = "demo"
    /\ req[t].pc = "lock"
    /\ MutexLock(t)
    /\ req' = [req EXCEPT ![t].pc = "print_name"]
    /\ checked' = Some([Unwrap(checked) EXCEPT !.order = Append(@, t)])
    /\ UNCHANGED <<call, made>>
    /\ UNCHANGED demoUnchanged

\* task: println!("Task n: Updating name to ..")
TaskPrintName(t) ==
    /\ backend = "demo"
    /\ req[t].pc = "print_name"
    /\ req' = [req EXCEPT ![t].pc = "set_name"]
    /\ UNCHANGED <<call, made, checked, lock>>
    /\ UNCHANGED demoUnchanged

\* task: locked_user.name = "..".to_string()
TaskSetName(t) ==
    /\ backend = "demo"
    /\ req[t].pc = "set_name"
    /\ made' = Some([Unwrap(made) EXCEPT !.name = TaskName(t)])
    /\ req' = [req EXCEPT ![t].pc = "load"]
    /\ UNCHANGED <<call, checked, lock>>
    /\ UNCHANGED demoUnchanged

\* task: locked_user.update_count += 1, the read of the field
TaskLoad(t) ==
    /\ backend = "demo"
    /\ req[t].pc = "load"
    /\ req' = [req EXCEPT ![t].pc = "store", ![t].loaded = Unwrap(made).update_count]
    /\ UNCHANGED <<call, made, checked, lock>>
    /\ UNCHANGED demoUnchanged

\* task: locked_user.update_count += 1, the write of the sum
TaskStore(t) ==
    /\ backend = "demo"
    /\ req[t].pc = "store"
    /\ made' = Some([Unwrap(made) EXCEPT !.update_count = AddAssign(req[t].loaded, 1)])
    /\ req' = [req EXCEPT ![t].pc = "print_count"]
    /\ UNCHANGED <<call, checked, lock>>
    /\ UNCHANGED demoUnchanged

\* task: println!("Task n: Updated count to {}", locked_user.update_count)
TaskPrintCount(t) ==
    /\ backend = "demo"
    /\ req[t].pc = "print_count"
    /\ req' = [req EXCEPT ![t].pc = "unlock"]
    /\ UNCHANGED <<call, made, checked, lock>>
    /\ UNCHANGED demoUnchanged

\* task: the guard goes out of scope at the end of the block
TaskUnlock(t) ==
    /\ backend = "demo"
    /\ req[t].pc = "unlock"
    /\ MutexUnlock(t)
    /\ req' = [req EXCEPT ![t].pc = "drop_clone"]
    /\ UNCHANGED <<call, made, checked>>
    /\ UNCHANGED demoUnchanged

\* task: the future ends, its captured Arc is dropped and the handle is ready
TaskEnd(t) ==
    /\ backend = "demo"
    /\ req[t].pc = "drop_clone"
    /\ req' = [req EXCEPT ![t].pc = "done"]
    /\ call' = [call EXCEPT !.strong_count = @ - 1]
    /\ UNCHANGED <<made, checked, lock>>
    /\ UNCHANGED demoUnchanged

\* main: _ = handle.await
MainAwait(t) ==
    /\ backend = "demo"
    /\ call.pc = AwaitPc(t)
    /\ req[t].pc = "done"
    /\ call' = [call EXCEPT !.pc = AfterAwait(t)]
    /\ UNCHANGED <<made, checked, lock, req>>
    /\ UNCHANGED demoUnchanged

\* main: let locked_user = user.lock().unwrap()
MainFinalLock ==
    /\ backend = "demo"
    /\ call.pc = "final_lock"
    /\ MutexLock(Main)
    /\ call' = [call EXCEPT !.pc = "final_print"]
    /\ UNCHANGED <<made, checked, req>>
    /\ UNCHANGED demoUnchanged

\* main: println! of the final name and count, and the guard goes out of scope
MainFinalPrint ==
    /\ backend = "demo"
    /\ call.pc = "final_print"
    /\ MutexUnlock(Main)
    /\ call' = [call EXCEPT !.pc = "end"]
    /\ checked' = Some([Unwrap(checked) EXCEPT !.printed = made])
    /\ UNCHANGED <<made, req>>
    /\ UNCHANGED demoUnchanged

TaskStep(t) ==
    \/ TaskStart(t)
    \/ TaskWake(t)
    \/ TaskLock(t)
    \/ TaskPrintName(t)
    \/ TaskSetName(t)
    \/ TaskLoad(t)
    \/ TaskStore(t)
    \/ TaskPrintCount(t)
    \/ TaskUnlock(t)
    \/ TaskEnd(t)

NextDemo ==
    \/ MainFirstLock
    \/ MainFirstPrint
    \/ MainClone
    \/ \E t \in DemoTasks : MainSpawn(t)
    \/ \E t \in DemoTasks : TaskStep(t)
    \/ \E t \in DemoTasks : MainAwait(t)
    \/ MainFinalLock
    \/ MainFinalPrint

SpecDemo == InitDemo /\ [][NextDemo]_vars

(***************************************************************************)
(* Either build                                                            *)
(***************************************************************************)
SpecHandlers ==
    (InitInMemory \/ InitPostgres) /\ [][NextInMemory \/ NextPostgres]_vars

(***************************************************************************)
(* Claims                                                                  *)
(***************************************************************************)
\* the email pattern as the specification words it: one or more local
\* characters, '@', one or more domain characters, '.', two or more letters
MatchesEmailPattern(e) ==
    \E local \in 1..Len(e), tld \in 2..Len(e) :
        /\ local + 1 + 1 + 1 + tld <= Len(e)
        /\ AllIn(SubSeq(e, 1, local), LocalChars)
        /\ e[local + 1] = "@"
        /\ AllIn(SubSeq(e, local + 2, Len(e) - tld - 1), DomainChars)
        /\ e[Len(e) - tld] = "."
        /\ AllIn(SubSeq(e, Len(e) - tld + 1, Len(e)), AsciiLower \cup AsciiUpper)

\* the four strength rules, the length counted in characters
LongEnough(p) == Len(p) >= 8
HasUppercase(p) == \E i \in 1..Len(p) : p[i] \in AsciiUpper \cup TwoByteUpper
HasLowercase(p) == \E i \in 1..Len(p) : p[i] \in AsciiLower \cup TwoByteLower
HasDigit(p) == \E i \in 1..Len(p) : p[i] \in AsciiDigit
StrongPassword(p) == LongEnough(p) /\ HasUppercase(p) /\ HasLowercase(p) /\ HasDigit(p)

\* C1: for a pattern-matching email and a password satisfying the four rules,
\* User::new returns Ok with a Standard user carrying the given email and
\* name, no age, and a password field different from the plaintext.
C1_NewValidUser ==
    (IsSome(made) /\ MatchesEmailPattern(call.email_address) /\ StrongPassword(call.password))
        => /\ Unwrap(made).ok
           /\ Unwrap(made).val.tier = "Standard"
           /\ Unwrap(made).val.user_details.email_address = call.email_address
           /\ Unwrap(made).val.user_details.name = call.name
           /\ Unwrap(made).val.user_details.age = None
           /\ Unwrap(made).val.user_details.password # call.password

C1_Witness ==
    /\ IsSome(made)
    /\ MatchesEmailPattern(call.email_address)
    /\ StrongPassword(call.password)
    /\ Unwrap(made).ok

\* C2: for a password shorter than 8 characters, or without an uppercase
\* letter, a lowercase letter or an ASCII digit, User::new fails with an
\* ApplicationError and returns no User.
C2_WeakPasswordRejected ==
    (IsSome(made) /\ ~StrongPassword(call.password))
        => /\ ~Unwrap(made).ok
           /\ Unwrap(made).err.kind = "ApplicationError"

\* C3: the hash stored by User::new parses, and verify_password with a
\* candidate different from the plaintext fails with IncorrectPassword,
\* never with the parse error.
C3_WrongCandidateIncorrect ==
    /\ (IsSome(made) /\ Unwrap(made).ok)
           => PasswordHash_new(Unwrap(made).val.user_details.password).ok
    /\ (IsSome(checked) /\ Unwrap(checked).candidate # call.password)
           => Unwrap(checked).result = Err(IncorrectPassword)

C3_Witness ==
    /\ IsSome(checked)
    /\ Unwrap(checked).candidate # call.password
    /\ Unwrap(checked).candidate # <<>>
    /\ Len(Unwrap(checked).candidate) = Len(call.password)
\* C4: login looks the user up first; without a user it answers not-found
\* and verifies nothing; with a user it verifies the supplied password once
\* and answers unauthorized on a mismatch, OK with the user's details on a
\* match; a login ends in no other way and in no other order.
C4_LoginOrder ==
    \A p \in Procs :
        LET r == req[p] IN
        r.kind = "login" =>
            /\ r.lookups <= 1
            /\ r.verifies <= 1
            /\ (r.pc = "verify" \/ r.verifies = 1)
                   => (r.lookups = 1 /\ IsSome(r.found)
                       /\ Unwrap(r.found).user_details.email_address = r.email_address)
            /\ r.status # NoStatus => r.pc = "done"
            /\ r.pc = "done"
                   => /\ r.lookups = 1
                      /\ \/ /\ r.found = None
                            /\ r.verifies = 0
                            /\ r.status = NOT_FOUND
                            /\ r.body = None
                         \/ /\ IsSome(r.found)
                            /\ r.verifies = 1
                            /\ ~Unwrap(r.verified).ok
                            /\ r.status = UNAUTHORIZED
                            /\ r.body = None
                         \/ /\ IsSome(r.found)
                            /\ r.verifies = 1
                            /\ Unwrap(r.verified).ok
                            /\ r.status = OK
                            /\ r.body = Some(Unwrap(r.found).user_details)

C4_Witness ==
    \E p \in Procs :
        /\ backend = "postgres"
        /\ req[p].kind = "login"
        /\ req[p].pc = "done"
        /\ req[p].verifies = 1
        /\ req[p].status = OK

\* the status the error kinds are to be mapped to
StatusOfKind(kind) ==
    IF kind = "UserDoesNotExist" THEN NOT_FOUND
    ELSE IF kind = "IncorrectPassword" THEN UNAUTHORIZED
    ELSE INTERNAL_SERVER_ERROR

\* C5: in every handler an error is answered by its kind alone:
\* UserDoesNotExist not-found, IncorrectPassword unauthorized, every other
\* kind internal-error, wherever in the request it arises.
C5_StatusByKind ==
    \A p \in Procs :
        (req[p].pc = "done" /\ IsSome(req[p].error))
            => req[p].status = StatusOfKind(Unwrap(req[p].error).kind)

\* C6: a register whose payload User::new refuses (malformed email or weak
\* password) never reaches store and leaves the table as it was.
C6_ValidationBeforeStore ==
    [][\A p \in Procs :
          (/\ req'[p] # req[p]
           /\ req'[p].kind = "register"
           /\ \/ ~MatchesEmailPattern(req'[p].email_address)
              \/ ~StrongPassword(req'[p].password))
              => /\ rows' = rows
                 /\ req'[p].pc = "done"
                 /\ req'[p].stores = 0
                 /\ req'[p].status = INTERNAL_SERVER_ERROR
                 /\ req'[p].body = None]_vars

C6_Witness ==
    \E p \in Procs :
        /\ backend = "postgres"
        /\ req[p].kind = "register"
        /\ req[p].pc = "done"
        /\ ~StrongPassword(req[p].password)
        /\ req[p].stores = 0

DistinctEmails(vec) ==
    \A i, j \in 1..Len(vec) :
        i # j => vec[i].user_details.email_address # vec[j].user_details.email_address

\* C7: concurrent registers against the in-memory backend all answer 201,
\* the collection holds one entry per completed push, and (the emails being
\* pairwise distinct) every registered email is found again with its user.
C7_NoLostWrite ==
    backend = "in_memory" =>
        /\ \A p \in Procs :
               (req[p].kind = "register" /\ req[p].pc = "done") => req[p].status = CREATED
        /\ Len(users) = Len(created) + Cardinality({p \in Procs : req[p].pc = "store_unlock"})
        /\ \A i \in 1..Len(created) :
               /\ IsSome(VecFind(users, created[i].email_address))
               /\ DistinctEmails(users)
                      => VecFind(users, created[i].email_address) = Some(created[i].user)

C7_Witness ==
    /\ backend = "in_memory"
    /\ Len(created) = 2
    /\ Len(users) = 2
    /\ DistinctEmails(users)
    /\ \A p \in Procs : req[p].kind = "register" /\ req[p].pc = "done"

\* C8: once register has answered 201 for (email, password), a later login
\* with that email and password answers 200 with the user's details, and a
\* later login with that email and another password answers unauthorized.
\* Stated for the requests the database driver served without a failure
\* (known holds the passwords of such registrations of the email).
C8_LoginAfterRegister ==
    \A p \in Procs :
        LET r == req[p] IN
        (r.kind = "login" /\ r.pc = "done" /\ r.known # {} /\ ~r.driver_failed)
            => IF r.password \in r.known
               THEN r.status = OK /\ IsSome(r.body)
                        /\ Unwrap(r.body).email_address = r.email_address
               ELSE r.status = UNAUTHORIZED

Waiting(p) == req[p].pc \in {"store_lock", "find_lock"}
Holding(p) == req[p].pc \in {"store_push", "store_unlock", "find_read", "find_unlock"}

\* C9: the collection is read and written only by the task holding the
\* mutex, one task holds it at a time, every call releases it, and no task
\* waits for it forever.
C9_MutexDiscipline ==
    /\ [](\A p \in Procs : Holding(p) <=> lock = Some(p))
    /\ [](Cardinality({p \in Procs : Holding(p)}) <= 1)
    /\ [][users' # users => (lock # None /\ lock' = lock)]_vars
    /\ [][\A p \in Procs : req'[p].lookups > req[p].lookups => lock = Some(p)]_vars
    /\ \A p \in Procs : Waiting(p) ~> Holding(p)
    /\ \A p \in Procs : Holding(p) ~> (lock # Some(p))

C9_Witness ==
    \E p, q \in Procs : p # q /\ lock = Some(p) /\ Waiting(q)

\* C10: with_email_address answers UserDoesNotExist (None in the in-memory
\* build) when no row or entry has the email, and in the relational build
\* also when the driver fails; it answers with no other error kind, and a
\* user it returns is a stored one with that email.
C10_LookupNotFound ==
    [][\A p \in Procs :
          (req[p].lookups = 0 /\ req'[p].lookups = 1)
              => LET r == req'[p] IN
                 /\ IsSome(r.found)
                        => /\ Unwrap(r.found).user_details.email_address = r.email_address
                           /\ r.lookup_error = None
                           /\ IF backend = "postgres"
                              THEN \E i \in 1..Len(rows) :
                                       Row(Unwrap(r.found)) = rows[i]
                              ELSE \E i \in 1..Len(users) : Unwrap(r.found) = users[i]
                 /\ (backend = "postgres" /\ r.found = None)
                        => r.lookup_error = Some(UserDoesNotExist)
                 /\ (backend = "in_memory") => r.lookup_error = None
                 /\ (backend = "postgres" /\ Matching(rows, r.email_address) = {})
                        => r.found = None
                 /\ (backend = "in_memory"
                     /\ \A i \in 1..Len(users) :
                            users[i].user_details.email_address # r.email_address)
                        => r.found = None
                 /\ r.driver_failed => (r.found = None /\ r.lookup_error = Some(UserDoesNotExist))
      ]_vars

C10_Witness ==
    \E p \in Procs :
        /\ backend = "postgres"
        /\ req[p].lookups = 1
        /\ req[p].driver_failed
        /\ Matching(rows, req[p].email_address) # {}
        /\ req[p].lookup_error = Some(UserDoesNotExist)

\* the table held a row for the email before any request was served
Preexisting(email_address) ==
    /\ backend = "postgres"
    /\ email_address = ForeignRow.email_address
    /\ \E i \in 1..Len(rows) : rows[i] = ForeignRow

\* C11: get-by-email answers not-found for an email no completed register
\* carried, and OK with the details of a user registered under that email
\* when a register for it completed before the request came in. Stated for
\* the lookups the database driver served without a failure and for emails
\* the table did not hold before the first request.
C11_GetAfterRegister ==
    \A p \in Procs :
        LET r == req[p] IN
        (r.kind = "get" /\ r.pc = "done" /\ ~r.driver_failed /\ ~Preexisting(r.email_address))
            => /\ (\A i \in 1..Len(created) : created[i].email_address # r.email_address)
                      => (r.status = NOT_FOUND /\ r.body = None)
               /\ r.registered
                      => /\ r.status = OK
                         /\ \E i \in 1..Len(created) :
                                /\ created[i].email_address = r.email_address
                                /\ r.body = Some(details(created[i].user))

\* the User a finished request answered about
Subject(r) == IF r.kind = "register" THEN Unwrap(r.user) ELSE Unwrap(r.found)

\* C12: the body of every successful register, login and get-by-email
\* response carries the user's details without the stored password: no
\* field of the serialized body holds the value of the stored password field.
C12_PasswordRedacted ==
    \A p \in Procs :
        LET r == req[p] IN
        (r.pc = "done" /\ r.status \in {OK, CREATED})
            => /\ IsSome(Json(r.body))
               /\ LET written == Unwrap(Json(r.body))
                  IN  /\ written.emailAddress = r.email_address
                      /\ \A field \in DOMAIN written :
                             written[field] # password_of(Subject(r))

ErrorStatuses == {NOT_FOUND, UNAUTHORIZED, INTERNAL_SERVER_ERROR}

\* C13: a response with status not-found, unauthorized or internal-error has
\* an empty body (no user details, no error detail), and user details appear
\* only together with OK or created.
C13_ErrorBodyEmpty ==
    \A p \in Procs :
        LET r == req[p] IN
        /\ r.status \in ErrorStatuses => (r.body = None /\ Json(r.body) = None)
        /\ IsSome(r.body) => r.status \in {OK, CREATED}
        /\ r.pc = "done" => r.status \in ErrorStatuses \cup {OK, CREATED}

C13_Witness ==
    \E p \in Procs :
        /\ req[p].pc = "done"
        /\ req[p].status = INTERNAL_SERVER_ERROR
        /\ IsSome(req[p].error)
        /\ Unwrap(req[p].error).detail # ""
        /\ Json(req[p].body) = None

\* the entries of the collection, and the completed registrations, with an email
EntriesWith(vec, email_address) ==
    {i \in 1..Len(vec) : vec[i].user_details.email_address = email_address}
RegistrationsWith(email_address) ==
    {i \in 1..Len(created) : created[i].email_address = email_address}

\* C14: the in-memory store never rejects a duplicate: every register,
\* whether or not the email is already held, pushes once and answers 201,
\* and every completed register of an email has left an entry of its own.
C14_DuplicatesKept ==
    backend = "in_memory" =>
        /\ \A p \in Procs :
               (req[p].kind = "register" /\ req[p].pc = "done")
                   => (req[p].stores = 1 /\ req[p].status = CREATED)
        /\ \A i \in 1..Len(created) :
               Cardinality(EntriesWith(users, created[i].email_address))
                   >= Cardinality(RegistrationsWith(created[i].email_address))

C14_Witness ==
    /\ backend = "in_memory"
    /\ \A p \in Procs : req[p].kind = "register" /\ req[p].pc = "done"
                          /\ req[p].status = CREATED
                          /\ req[p].email_address = req[1].email_address
    /\ Cardinality(EntriesWith(users, req[1].email_address)) = NProc

\* C15: with_email_address hands out a copy: whatever the caller does with
\* the User it got (update_name, update_age, update_to_premium), a later
\* with_email_address returns what the first one returned whenever the first
\* found an entry, and neither a lookup nor an update of the returned User
\* changes the collection.
C15_LookupHandsOutCopy ==
    /\ [](backend = "caller" =>
              /\ (IsSome(made) /\ IsSome(checked) /\ IsSome(Unwrap(made).returned))
                     => Unwrap(checked).found = Unwrap(made).returned
              /\ \A i \in 1..Len(users) :
                     \E payload \in MemRequests :
                         users[i] = User_new_plain(payload.email_address, payload.name,
                                                   payload.password))
    /\ [][(backend = "caller" /\ (made' # made \/ checked' # checked)) => users' = users]_vars

C15_Witness ==
    /\ backend = "caller"
    /\ IsSome(made)
    /\ IsSome(Unwrap(made).returned)
    /\ Unwrap(made).held # Unwrap(made).returned
    /\ Unwrap(Unwrap(made).held).tier = "Premium"
    /\ IsSome(checked)
    /\ Len(users) = MaxStored

\* C16: for an email that does not match the pattern, User::new fails with
\* ApplicationError("Invalid email address"), whatever the name and the
\* password are.
C16_InvalidEmailRejected ==
    (IsSome(made) /\ backend = "aggregate" /\ ~MatchesEmailPattern(call.email_address))
        => Unwrap(made) = Err(ApplicationError("Invalid email address"))

C16_Witness ==
    /\ backend = "aggregate"
    /\ IsSome(made)
    /\ ~MatchesEmailPattern(call.email_address)
    /\ \E i \in 1..Len(call.email_address) : call.email_address[i] = "@"
    /\ ~StrongPassword(call.password)
    /\ Unwrap(made) = Err(ApplicationError("Invalid email address"))

\* the message User::new is to fail with for a password: that of the first
\* rule, in the order length, uppercase, lowercase, digit, the password fails
FirstFailingRule(p) ==
    IF ~LongEnough(p) THEN "Password must be at least 8 characters long"
    ELSE IF ~HasUppercase(p) THEN "Password must contain at least one uppercase letter"
    ELSE IF ~HasLowercase(p) THEN "Password must contain at least one lowercase letter"
    ELSE IF ~HasDigit(p) THEN "Password must contain at least one digit"
    ELSE ""

\* C17: the password rules are checked in the order length, uppercase,
\* lowercase, digit, and a password failing several rules is refused with the
\* message of the first rule in this order that it fails.
C17_FirstFailingRuleWins ==
    (/\ backend = "aggregate"
     /\ IsSome(made)
     /\ MatchesEmailPattern(call.email_address)
     /\ ~StrongPassword(call.password))
        => Unwrap(made) = Err(ApplicationError(FirstFailingRule(call.password)))

ParseError == Err(ApplicationError("Failed to parse password hash"))

\* the stored string is the Argon2 hash of the candidate under some salt
HashOf(stored, candidate) ==
    \E salt \in Salts : stored = PhcString(Argon2Ident, salt, Argon2Digest(candidate, salt))

\* C18: verify_password has exactly three outcomes and leaves the user as it
\* is: the parse error when the stored string is no parseable hash,
\* IncorrectPassword when it parses and the candidate does not match, Ok(())
\* when the candidate matches.
C18_VerifyOutcomes ==
    /\ []((backend = "stored" /\ IsSome(checked)) =>
              LET result == Unwrap(checked).result
                  candidate == Unwrap(checked).candidate
              IN  /\ result \in {Ok(Unit), Err(IncorrectPassword), ParseError}
                  /\ result = ParseError <=> ~PasswordHash_new(call.stored).ok
                  /\ result = Ok(Unit) <=> HashOf(call.stored, candidate))
    /\ [][(backend = "stored" /\ checked' # checked) => made' = made]_vars

C18_Witness ==
    /\ backend = "stored"
    /\ IsSome(checked)
    /\ call.stored # <<>>
    /\ Head(call.stored) = "$"
    /\ Unwrap(checked).result = ParseError

\* C20: User::from validates nothing and hashes nothing: for every input it
\* returns a Standard user without an age whose email, name and password
\* fields are the given strings.
C20_FromKeepsColumns ==
    (backend = "stored" /\ IsSome(made))
        => Unwrap(made) = [tier |-> "Standard",
                           user_details |-> [email_address |-> call.email_address,
                                             name |-> call.name,
                                             age |-> None,
                                             password |-> call.stored]]

C20_Witness ==
    /\ backend = "stored"
    /\ IsSome(made)
    /\ ~MatchesEmailPattern(call.email_address)
    /\ ~StrongPassword(call.stored)
    /\ ~PasswordHash_new(call.stored).ok
    /\ Unwrap(made).user_details.password = call.stored

\* C19: hashing one plaintext twice, each call with a salt of its own, gives
\* two different hash strings, and the plaintext verifies against both.
\* Fresh salts are distinct salts: the generator repeating a salt is left out.
C19_TwoHashesDiffer ==
    (backend = "hasher" /\ IsSome(made) /\ IsSome(checked))
        => /\ Unwrap(made).hashed.ok
           /\ Unwrap(checked).hashed.ok
           /\ Unwrap(made).salt # Unwrap(checked).salt
                  => Unwrap(made).hashed.val # Unwrap(checked).hashed.val
           /\ IsSome(Unwrap(checked).verified)
                  => Unwrap(Unwrap(checked).verified) = <<Ok(Unit), Ok(Unit)>>

C19_Witness ==
    /\ backend = "hasher"
    /\ IsSome(made)
    /\ IsSome(checked)
    /\ Unwrap(made).salt # Unwrap(checked).salt
    /\ Unwrap(made).hashed.val # Unwrap(checked).hashed.val
    /\ Unwrap(checked).verified = Some(<<Ok(Unit), Ok(Unit)>>)

\* the held user and the last call made on it
Held == Unwrap(made)
Last == Unwrap(checked)
After(op) == backend = "tiers" /\ IsSome(made) /\ IsSome(checked) /\ Last.op = op

\* C21: the tier only moves from Standard to Premium: update_to_premium on a
\* Standard user gives a Premium user with the same details, and no call of
\* update_name, update_age or update_to_premium takes a Premium user back to
\* Standard.
C21_TierOneDirectional ==
    [][ (backend = "tiers" /\ IsSome(made)) =>
            /\ IsSome(made')
            /\ Held.tier = "Premium" => Unwrap(made').tier = "Premium"
            /\ (Held.tier = "Standard" /\ IsSome(checked')
                    /\ Unwrap(checked').op = "update_to_premium") =>
                   /\ Unwrap(made').tier = "Premium"
                   /\ Unwrap(made').user_details = Held.user_details ]_vars

C21_Witness ==
    /\ After("update_to_premium")
    /\ Last.before.tier = "Premium"
    /\ IsSome(Last.before.user_details.age)
    /\ Last.before.user_details.name = NameAl
    /\ Held.tier = "Premium"

\* C22: update_to_premium is idempotent: on a Premium user it returns that
\* user, with the same email, name, age and password, and applying it twice
\* gives what applying it once gives.
C22_UpgradeIdempotent ==
    After("update_to_premium") =>
        /\ Last.before.tier = "Premium" =>
               /\ Held.tier = "Premium"
               /\ Held.is_premium = TRUE
               /\ email_address_of(Held) = email_address_of(Last.before)
               /\ name_of(Held) = name_of(Last.before)
               /\ Held.user_details.age = Last.before.user_details.age
               /\ password_of(Held) = password_of(Last.before)
               /\ DOMAIN Held = DOMAIN Last.before
        /\ update_to_premium(Held) = Held
        /\ update_to_premium(update_to_premium(Last.before)) = update_to_premium(Last.before)

C22_Witness ==
    /\ After("update_to_premium")
    /\ Last.before.tier = "Premium"
    /\ Last.before.user_details.age = Some(AgeThirty)
    /\ Held = Last.before

\* C23: two users are equal exactly when their email addresses are equal,
\* whatever their tier, name, age and password; a Standard user equals the
\* Premium user update_to_premium makes of it.
C23_EqualByEmail ==
    After("eq") =>
        (Last.equal <=> email_address_of(Last.before) = email_address_of(Last.arg[1]))

\* C24: the name of a user is never empty, after User::new and after every
\* update_name.
C24_NameNeverEmpty ==
    (backend = "tiers" /\ IsSome(made)) => name_of(Held) # <<>>

\* C26: update_name replaces only the name and update_age sets only the age,
\* to the value given; the email, the password hash, the tier and the other
\* field stay as they were, for Standard and Premium users alike.
C26_UpdateFrame ==
    /\ After("update_name") =>
           /\ name_of(Held) = Last.arg[1]
           /\ Held = [Last.before EXCEPT !.user_details.name = Last.arg[1]]
           /\ email_address_of(Held) = email_address_of(Last.before)
           /\ password_of(Held) = password_of(Last.before)
           /\ Held.user_details.age = Last.before.user_details.age
           /\ Held.tier = Last.before.tier
    /\ After("update_age") =>
           /\ Held.user_details.age = Some(Last.arg[1])
           /\ Held = [Last.before EXCEPT !.user_details.age = Some(Last.arg[1])]
           /\ email_address_of(Held) = email_address_of(Last.before)
           /\ password_of(Held) = password_of(Last.before)
           /\ name_of(Held) = name_of(Last.before)
           /\ Held.tier = Last.before.tier

C26_Witness ==
    /\ After("update_name")
    /\ Last.before.tier = "Premium"
    /\ Last.before.user_details.age = Some(AgeTen)
    /\ name_of(Last.before) = NameJo
    /\ name_of(Held) = NameAl

\* a payload the rules of the constructor accept
ValidPayload(r) == MatchesEmailPattern(r.email_address) /\ StrongPassword(r.password)

\* C25: for a valid payload register runs its steps in order and once each:
\* it constructs the user, calls store once with a user carrying the
\* payload's email, and answers 201 only in the step in which store returned.
C25_RegisterStepOrder ==
    /\ [](\A p \in Procs :
             LET r == req[p] IN
             (backend = "postgres" /\ r.kind = "register" /\ ValidPayload(r)) =>
                 /\ r.pc \in {"store", "done"}
                 /\ ~r.new_failed
                 /\ IsSome(r.user)
                 /\ email_address_of(Unwrap(r.user)) = r.email_address
                 /\ r.pc = "store" => (r.stores = 0 /\ r.status = NoStatus /\ r.body = None)
                 /\ r.pc = "done" => r.stores = 1
                 /\ r.status = CREATED => (r.stores = 1 /\ r.error = None))
    /\ [][\A p \in Procs :
             (backend = "postgres" /\ req'[p] # req[p] /\ req'[p].kind = "register"
                  /\ req'[p].status = CREATED) =>
                 /\ req[p].pc = "store"
                 /\ req[p].status = NoStatus
                 /\ req'[p].user = req[p].user
                 /\ req'[p].stores = req[p].stores + 1
                 /\ Len(created') = Len(created) + 1
                 /\ email_address_of(created'[Len(created')].user) = req[p].email_address
                 /\ rows' \in {rows, Append(rows, Row(Unwrap(req[p].user)))}]_vars

C25_Witness ==
    \E p \in Procs :
        /\ backend = "postgres"
        /\ req[p].kind = "register"
        /\ ValidPayload(req[p])
        /\ req[p].pc = "done"
        /\ req[p].status = CREATED
        /\ req[p].stores = 1
        /\ Len(rows) > 0
        /\ rows[Len(rows)] = Row(Unwrap(req[p].user))

\* the table holds the row of the user
Persisted(user) == \E i \in 1..Len(rows) : rows[i] = Row(user)

\* C28: the relational store returns Ok whatever became of the INSERT, so
\* register answers 201 for every valid payload, also when no row was
\* written, and no failure of store reaches the error arms of the handler.
C28_StoreFailureSwallowed ==
    \A p \in Procs :
        LET r == req[p] IN
        (backend = "postgres" /\ r.kind = "register" /\ r.pc = "done"
             /\ (ValidPayload(r) \/ r.stores > 0)) =>
            /\ r.stores = 1
            /\ r.status = CREATED
            /\ r.body = Some(details(Unwrap(r.user)))
            /\ r.error = None

C28_Witness ==
    \E p \in Procs :
        /\ backend = "postgres"
        /\ req[p].kind = "register"
        /\ ValidPayload(req[p])
        /\ req[p].pc = "done"
        /\ req[p].status = CREATED
        /\ ~Persisted(Unwrap(req[p].user))
        /\ unique_key
        /\ created[Len(created)].user = Unwrap(req[p].user)
        /\ ~created[Len(created)].driver_failed

\* the tasks of the demo that have written their sum
Added == {t \in DemoTasks : req[t].pc \in {"print_count", "unlock", "drop_clone", "done"}}

\* C27: in the shared-user demo each of the two tasks takes the mutex once,
\* sets the name and adds one to update_count; no addition is lost in any
\* interleaving, the final update_count is 2, and the final name is the name
\* of the task that took the mutex last.
C27_NoLostUpdate ==
    backend = "demo" =>
        LET user == Unwrap(made)
            order == Unwrap(checked).order
            printed == Unwrap(checked).printed
        IN  /\ user.update_count = Cardinality(Added)
            /\ Len(order) <= 2
            /\ \A i, j \in 1..Len(order) : i # j => order[i] # order[j]
            /\ \A t \in DemoTasks :
                   req[t].pc \in {"print_name", "set_name", "load", "store", "print_count",
                                  "unlock", "drop_clone", "done"}
                       <=> \E i \in 1..Len(order) : order[i] = t
            /\ (\A t \in DemoTasks : req[t].pc \in {"drop_clone", "done"}) =>
                   /\ user.update_count = 2
                   /\ user.name = TaskName(order[2])
            /\ call.pc = "end" =>
                   /\ \A t \in DemoTasks : req[t].pc = "done"
                   /\ printed = Some([name |-> TaskName(order[2]), update_count |-> 2])

C27_Witness ==
    /\ backend = "demo"
    /\ call.pc = "end"
    /\ Unwrap(checked).order = <<2, 1>>
    /\ Unwrap(checked).printed = Some([name |-> NameJohn, update_count |-> 2])

\* the registrations of the email answered so far, in the order of their answers
RegistrationsOf(email_address) ==
    SelectSeq(created, LAMBDA c : c.email_address = email_address)

\* C29: when the in-memory collection holds several entries of one email,
\* with_email_address returns the one stored first: after a second
\* registration of the email, login succeeds with the password of the first
\* registration only, and get_user_details answers with the details of the
\* first registration.
C29_FirstStoredWins ==
    \A p \in MemTasks :
        LET r == req[p]
            regs == RegistrationsOf(r.email_address)
        IN  (backend = "in_memory" /\ "serial" \in DOMAIN call
                 /\ r.kind \in {"login", "get"} /\ Len(regs) >= 2) =>
                /\ r.lookups > 0 => r.found = Some(regs[1].user)
                /\ (r.pc = "done" /\ r.kind = "login") =>
                       /\ r.status = (IF r.password = regs[1].password THEN OK ELSE UNAUTHORIZED)
                       /\ r.status = OK => r.body = Some(details(regs[1].user))
                /\ (r.pc = "done" /\ r.kind = "get") =>
                       /\ r.status = OK
                       /\ r.body = Some(details(regs[1].user))

C29_Witness ==
    \E p \in MemTasks :
        LET r == req[p]
            regs == RegistrationsOf(r.email_address)
        IN  /\ backend = "in_memory"
            /\ "serial" \in DOMAIN call
            /\ r.kind = "login"
            /\ r.pc = "done"
            /\ Len(regs) = 2
            /\ regs[1].password # regs[2].password
            /\ r.password = regs[2].password
            /\ r.status = UNAUTHORIZED
            /\ Len(users) = 2

\* the value stored and the value read back
Stored == Unwrap(checked).stored
ReadBack == Unwrap(Unwrap(checked).found)

\* C30: a user read back from the relational backend is a Standard user with
\* no age, whatever tier and age the stored user had; when the row read is
\* the row of the stored user, its email, name and password hash come back
\* and the Premium tier and the age are lost; the in-memory backend returns
\* the stored value itself.
C30_ReadBackLosesTierAndAge ==
    (backend = "round_trip" /\ IsSome(checked) /\ IsSome(Unwrap(checked).found)) =>
        IF call.target = "postgres"
        THEN ReadBack.ok =>
                 /\ ReadBack.val.tier = "Standard"
                 /\ ReadBack.val.user_details.age = None
                 /\ (\A i \in Matching(rows, call.email_address) : rows[i] = Row(Stored)) =>
                        /\ email_address_of(ReadBack.val) = email_address_of(Stored)
                        /\ name_of(ReadBack.val) = name_of(Stored)
                        /\ password_of(ReadBack.val) = password_of(Stored)
                        /\ (Stored.tier = "Premium" \/ IsSome(Stored.user_details.age))
                               => ReadBack.val # Stored
        ELSE ReadBack = Some(Stored)

C30_Witness ==
    /\ backend = "round_trip"
    /\ IsSome(checked)
    /\ IsSome(Unwrap(checked).found)
    /\ call.target = "postgres"
    /\ Stored.tier = "Premium"
    /\ Stored.user_details.age = Some(AgeThirty)
    /\ ReadBack.ok
    /\ ReadBack.val = Standard([Stored.user_details EXCEPT !.age = None])

====
